---- MODULE Spec2Model ----
(***************************************************************************)
(* Model of src/main.py: the GPS & RFID bus tracking API backed by SQLite. *)
(*                                                                         *)
(* The state is the content of the four tables of bus_tracking.db plus the *)
(* position and the locals of every request handler in flight.  A handler  *)
(* is a sequence of database calls; every call opens its own connection    *)
(* (get_db_connection) and commits on its own, so the unit of atomicity is *)
(* one SQL statement, or one write transaction (from the first INSERT,     *)
(* UPDATE or DELETE on a connection up to its commit).  Python's sqlite3   *)
(* module opens no transaction for a SELECT, so two SELECTs on the same    *)
(* connection are two separate reads.                                      *)
(*                                                                         *)
(* Spec    : several server processes share the database file; their       *)
(*           handlers interleave at the granularity of database calls.     *)
(* SpecSeq : the deployment of main.py:616-618, one uvicorn process; the   *)
(*           handlers are coroutines without an await, so each one runs    *)
(*           to completion before the next one starts.                     *)
(***************************************************************************)
EXTENDS Integers, Sequences, FiniteSets, TLC

VARIABLES
    system_settings,  \* table system_settings: key -> value (text)
    rfid_lists,       \* table rfid_lists: set of rows [uid, list_type]
    rfid_scans,       \* table rfid_scans: rows in rowid order
    gps_history,      \* table gps_history: rows in rowid order
    gps_seq,          \* sqlite_sequence entry of gps_history (AUTOINCREMENT)
    now,              \* the value CURRENT_TIMESTAMP yields (whole seconds)
    h,                \* per server process: the handler it runs and its locals
    nreq,             \* number of requests accepted so far
    pre               \* history variable: the store as the latest request found it

vars == <<system_settings, rfid_lists, rfid_scans, gps_history, gps_seq, now, h, nreq, pre>>

(***************************************************************************)
(* Bounds of the model.                                                    *)
(***************************************************************************)
NumProcs == 2     \* server processes sharing the database file
MaxReqs == 2      \* requests accepted in one behaviour
MaxClock == 1     \* seconds the clock may advance in one behaviour
MaxFixes == 1     \* GPS fixes ingested in one behaviour of SpecGps
MaxStored == 2    \* scans and fixes on record when a behaviour of SpecLog starts

(***************************************************************************)
(* Program constants.                                                      *)
(***************************************************************************)
TOTAL_SEATS == 30
GPS_KEEP == 100

\* limit: int = 20 of the history queries
DEFAULT_LIMIT == 20

Procs == 1..NumProcs

(***************************************************************************)
(* Badge identifiers are strings, modelled as sequences of characters so   *)
(* that str.upper() is computed character by character.                    *)
(***************************************************************************)
LowerCase == <<"a", "b", "c", "d", "e", "f", "z">>
UpperCase == <<"A", "B", "C", "D", "E", "F", "Z">>

UpperChar(c) ==
    IF \E i \in 1..Len(LowerCase) : LowerCase[i] = c
    THEN UpperCase[CHOOSE i \in 1..Len(LowerCase) : LowerCase[i] = c]
    ELSE c

upper(s) == [i \in 1..Len(s) |-> UpperChar(s[i])]

default_boarding ==
    { <<"F","3","A","0","2","F","2","7">>,
      <<"5","E","6","F","7","A","8","B">>,
      <<"9","C","0","D","1","E","2","F">> }

default_alighting ==
    { <<"5","3","3","1","E","5","0","C">>,
      <<"E","5","F","6","A","7","B","8">>,
      <<"C","9","D","0","E","1","F","2">> }

\* The badge identifiers requests carry: a default boarding badge in both
\* letter cases, a default alighting badge and an unregistered badge.
UIDS ==
    { <<"F","3","A","0","2","F","2","7">>,
      <<"f","3","a","0","2","f","2","7">>,
      <<"5","3","3","1","E","5","0","C">>,
      <<"Z","Z","Z","9","9","9">> }

(***************************************************************************)
(* str(int) and int(str) on decimal numerals.                              *)
(***************************************************************************)
DigitChars == <<"0", "1", "2", "3", "4", "5", "6", "7", "8", "9">>

RECURSIVE str(_)
str(n) ==
    IF n < 0 THEN <<"-">> \o str(-n)
    ELSE IF n < 10 THEN <<DigitChars[n + 1]>>
    ELSE Append(str(n \div 10), DigitChars[(n % 10) + 1])

DigitValue(c) == (CHOOSE i \in 1..10 : DigitChars[i] = c) - 1

RECURSIVE int(_)
int(s) ==
    IF s[1] = "-" THEN -int(Tail(s))
    ELSE IF Len(s) = 1 THEN DigitValue(s[1])
    ELSE 10 * int(SubSeq(s, 1, Len(s) - 1)) + DigitValue(s[Len(s)])

(***************************************************************************)
(* Database helpers.                                                       *)
(***************************************************************************)
\* get_current_seat_count: SELECT value ... ; int(value), 0 without a row
get_current_seat_count ==
    IF "current_seat_count" \in DOMAIN system_settings
    THEN int(system_settings["current_seat_count"])
    ELSE 0

\* update_seat_count: UPDATE system_settings SET value = str(new_count)
\* WHERE key = 'current_seat_count' (no row, no change)
update_seat_count(new_count) ==
    [k \in DOMAIN system_settings |->
        IF k = "current_seat_count" THEN str(new_count) ELSE system_settings[k]]

\* SELECT uid FROM rfid_lists WHERE list_type = t
ListOf(t) == { r.uid : r \in { x \in rfid_lists : x.list_type = t } }

\* Mutant: the table without the UNIQUE constraint on uid.
InsertListOk_NoUnique(uid) == TRUE

\* INSERT INTO rfid_lists (uid, list_type): the column uid is UNIQUE, so the
\* statement raises sqlite3.IntegrityError when a row with this uid exists.
InsertListOk(uid) == \A r \in rfid_lists : r.uid # uid

InsertList(uid, t) == rfid_lists \cup { [uid |-> uid, list_type |-> t] }

\* DELETE FROM rfid_lists WHERE uid = ? AND list_type = ?
DeleteList(uid, t) == rfid_lists \ { [uid |-> uid, list_type |-> t] }

\* Mutant: the scan is written over the newest row instead of appended.
InsertScan_ReplaceLast(uid, action) ==
    IF rfid_scans = <<>>
    THEN <<[id |-> 1, uid |-> uid, action |-> action, created_at |-> now]>>
    ELSE [rfid_scans EXCEPT ![Len(rfid_scans)] =
             [id |-> Len(rfid_scans), uid |-> uid, action |-> action,
              created_at |-> now]]

\* INSERT INTO rfid_scans (uid, ..., action); id is the next rowid and
\* created_at defaults to CURRENT_TIMESTAMP
InsertScan(uid, action) ==
    Append(rfid_scans,
           [id |-> Len(rfid_scans) + 1, uid |-> uid, action |-> action,
            created_at |-> now])

(***************************************************************************)
(* Handler records.                                                        *)
(***************************************************************************)
NoUid == <<>>

NoResp == [status |-> "", action |-> "", current_seats |-> 0]

Idle ==
    [pc |-> "idle", op |-> "", uid |-> NoUid, current_seat_count |-> 0,
     boarding_list |-> {}, alighting_list |-> {}, action |-> "none",
     list_type |-> "", limit |-> 0, resp |-> NoResp]

Free(p) == h[p].pc \in {"idle", "done"}

\* What the request accepted by process p finds: the store (rfid_scans is
\* only ever appended to, so its length stands for it) and the operation
\* the process served before.
Snapshot(p) ==
    [proc |-> p, prev |-> h[p].op,
     system_settings |-> system_settings, rfid_lists |-> rfid_lists,
     nscans |-> Len(rfid_scans), gps_history |-> gps_history]

\* A request is accepted by a free server process.
Accept(p) ==
    /\ Free(p)
    /\ nreq' = nreq + 1
    /\ pre' = Snapshot(p)

Finish(p, op, uid, resp) ==
    [Idle EXCEPT !.pc = "done", !.op = op, !.uid = uid, !.resp = resp]

(***************************************************************************)
(* init_database, on a new database file.                                  *)
(***************************************************************************)
init_rfid_lists ==
    { [uid |-> u, list_type |-> "boarding"] : u \in default_boarding }
    \cup { [uid |-> u, list_type |-> "alighting"] : u \in default_alighting }

\* INSERT OR IGNORE INTO system_settings VALUES ('current_seat_count', '0');
\* SettingsWith(n) is that row after update_seat_count(n)
SettingsWith(n) == [k \in {"current_seat_count"} |-> str(n)]

init_system_settings == SettingsWith(0)


\* Occupancy values the store starts from: 0 is the new database; the others
\* are the store after that many boarding scans of the first default badge,
\* served one after the other within the first second.
StartCounts == {0, TOTAL_SEATS - 1}

StartCountsSeq == 0..TOTAL_SEATS

FirstBadge == <<"F","3","A","0","2","F","2","7">>

ScansAfter(k) ==
    [i \in 1..k |->
        [id |-> i, uid |-> FirstBadge, action |-> "boarding", created_at |-> 0]]

InitFrom(k) ==
    /\ system_settings = SettingsWith(k)
    /\ rfid_lists = init_rfid_lists
    /\ rfid_scans = ScansAfter(k)
    /\ gps_history = <<>>
    /\ gps_seq = 0
    /\ now = 0
    /\ h = [p \in Procs |-> Idle]
    /\ nreq = 0
    /\ pre = [proc |-> 1, prev |-> "",
              system_settings |-> SettingsWith(k),
              rfid_lists |-> init_rfid_lists,
              nscans |-> k, gps_history |-> <<>>]

Init == \E k \in StartCounts : InitFrom(k)

InitSeq == \E k \in StartCountsSeq : InitFrom(k)

(***************************************************************************)
(* The clock behind CURRENT_TIMESTAMP.                                     *)
(***************************************************************************)
Tick ==
    /\ now < MaxClock
    /\ now' = now + 1
    /\ UNCHANGED <<system_settings, rfid_lists, rfid_scans, gps_history,
                   gps_seq, h, nreq, pre>>

(***************************************************************************)
(* POST /rfid: receive_rfid_scan.                                          *)
(***************************************************************************)
\* Mutant: the capacity guard as count <= TOTAL_SEATS.
Classify_SeatsOffByOne(uid, count, boarding_list, alighting_list) ==
    IF uid \in boarding_list
    THEN IF count <= TOTAL_SEATS
         THEN [action |-> "boarding", count |-> count + 1]
         ELSE [action |-> "boarding_denied", count |-> count]
    ELSE IF uid \in alighting_list
         THEN IF count > 0
              THEN [action |-> "alighting", count |-> count - 1]
              ELSE [action |-> "alighting_error", count |-> count]
         ELSE [action |-> "unknown", count |-> count]

\* Mutant: a denied boarding still counts the passenger.
Classify_DeniedCounts(uid, count, boarding_list, alighting_list) ==
    IF uid \in boarding_list
    THEN IF count < TOTAL_SEATS
         THEN [action |-> "boarding", count |-> count + 1]
         ELSE [action |-> "boarding_denied", count |-> count + 1]
    ELSE IF uid \in alighting_list
         THEN IF count > 0
              THEN [action |-> "alighting", count |-> count - 1]
              ELSE [action |-> "alighting_error", count |-> count]
         ELSE [action |-> "unknown", count |-> count]

\* Mutant: the empty guard as count >= 0.
Classify_EmptyOffByOne(uid, count, boarding_list, alighting_list) ==
    IF uid \in boarding_list
    THEN IF count < TOTAL_SEATS
         THEN [action |-> "boarding", count |-> count + 1]
         ELSE [action |-> "boarding_denied", count |-> count]
    ELSE IF uid \in alighting_list
         THEN IF count >= 0
              THEN [action |-> "alighting", count |-> count - 1]
              ELSE [action |-> "alighting_error", count |-> count]
         ELSE [action |-> "unknown", count |-> count]

\* main.py:194-215: the outcome and the new count, from the values read
Classify(uid, count, boarding_list, alighting_list) ==
    IF uid \in boarding_list
    THEN IF count < TOTAL_SEATS
         THEN [action |-> "boarding", count |-> count + 1]
         ELSE [action |-> "boarding_denied", count |-> count]
    ELSE IF uid \in alighting_list
         THEN IF count > 0
              THEN [action |-> "alighting", count |-> count - 1]
              ELSE [action |-> "alighting_error", count |-> count]
         ELSE [action |-> "unknown", count |-> count]

\* current_seat_count = get_current_seat_count()
rfid_read_count(p, uid) ==
    /\ Accept(p)
    /\ h' = [h EXCEPT ![p] =
                [Idle EXCEPT !.pc = "rfid_read_boarding", !.op = "rfid",
                             !.uid = uid,
                             !.current_seat_count = get_current_seat_count]]
    /\ UNCHANGED <<system_settings, rfid_lists, rfid_scans, gps_history,
                   gps_seq, now>>

\* get_rfid_lists, first SELECT
rfid_read_boarding(p) ==
    /\ h[p].pc = "rfid_read_boarding"
    /\ h' = [h EXCEPT ![p].pc = "rfid_read_alighting",
                      ![p].boarding_list = ListOf("boarding")]
    /\ UNCHANGED <<system_settings, rfid_lists, rfid_scans, gps_history,
                   gps_seq, now, nreq, pre>>

\* get_rfid_lists, second SELECT, then the decision on the values read
rfid_read_alighting(p) ==
    /\ h[p].pc = "rfid_read_alighting"
    /\ LET al == ListOf("alighting")
           c == Classify(h[p].uid, h[p].current_seat_count,
                         h[p].boarding_list, al)
       IN h' = [h EXCEPT ![p].pc = "rfid_update",
                         ![p].alighting_list = al,
                         ![p].action = c.action,
                         ![p].current_seat_count = c.count]
    /\ UNCHANGED <<system_settings, rfid_lists, rfid_scans, gps_history,
                   gps_seq, now, nreq, pre>>

\* Mutant: the new count is returned but never written.
rfid_update_NotWritten(p) ==
    /\ h[p].pc = "rfid_update"
    /\ h' = [h EXCEPT ![p].pc = "rfid_insert"]
    /\ UNCHANGED <<system_settings, rfid_lists, rfid_scans, gps_history,
                   gps_seq, now, nreq, pre>>

\* update_seat_count(current_seat_count), whatever the outcome
rfid_update(p) ==
    /\ h[p].pc = "rfid_update"
    /\ system_settings' = update_seat_count(h[p].current_seat_count)
    /\ h' = [h EXCEPT ![p].pc = "rfid_insert"]
    /\ UNCHANGED <<rfid_lists, rfid_scans, gps_history, gps_seq, now, nreq, pre>>

\* Mutant: a scan of an unknown badge is answered but not recorded.
rfid_insert_SkipsUnknown(p) ==
    /\ h[p].pc = "rfid_insert"
    /\ rfid_scans' = IF h[p].action = "unknown" THEN rfid_scans
                     ELSE InsertScan(h[p].uid, h[p].action)
    /\ h' = [h EXCEPT ![p] =
                Finish(p, "rfid", h[p].uid,
                       [status |-> "success", action |-> h[p].action,
                        current_seats |-> h[p].current_seat_count])]
    /\ UNCHANGED <<system_settings, rfid_lists, gps_history, gps_seq, now,
                   nreq, pre>>

\* INSERT INTO rfid_scans, commit, and the response
rfid_insert(p) ==
    /\ h[p].pc = "rfid_insert"
    /\ rfid_scans' = InsertScan(h[p].uid, h[p].action)
    /\ h' = [h EXCEPT ![p] =
                Finish(p, "rfid", h[p].uid,
                       [status |-> "success", action |-> h[p].action,
                        current_seats |-> h[p].current_seat_count])]
    /\ UNCHANGED <<system_settings, rfid_lists, gps_history, gps_seq, now,
                   nreq, pre>>

(***************************************************************************)
(* POST /seats/reset: reset_seat_count.                                    *)
(***************************************************************************)
\* Mutant: the reset answers 0 but writes the count back as it read it.
reset_seat_count_KeepsCount(p) ==
    /\ Accept(p)
    /\ system_settings' = update_seat_count(get_current_seat_count)
    /\ h' = [h EXCEPT ![p] =
                Finish(p, "reset", NoUid,
                       [status |-> "success", action |-> "",
                        current_seats |-> 0])]
    /\ UNCHANGED <<rfid_lists, rfid_scans, gps_history, gps_seq, now>>

\* Mutant: the reset also empties the scan history.
reset_seat_count_ClearsHistory(p) ==
    /\ Accept(p)
    /\ system_settings' = update_seat_count(0)
    /\ rfid_scans' = <<>>
    /\ h' = [h EXCEPT ![p] =
                Finish(p, "reset", NoUid,
                       [status |-> "success", action |-> "",
                        current_seats |-> 0])]
    /\ UNCHANGED <<rfid_lists, gps_history, gps_seq, now>>

reset_seat_count(p) ==
    /\ Accept(p)
    /\ system_settings' = update_seat_count(0)
    /\ h' = [h EXCEPT ![p] =
                Finish(p, "reset", NoUid,
                       [status |-> "success", action |-> "",
                        current_seats |-> 0])]
    /\ UNCHANGED <<rfid_lists, rfid_scans, gps_history, gps_seq, now>>


(***************************************************************************)
(* POST /rfid/lists/boarding/add and /rfid/lists/alighting/add:            *)
(* add_boarding_rfid and add_alighting_rfid, the same code up to the list  *)
(* type t.  The closing COUNT query only feeds the count of the response,  *)
(* which is not modelled.                                                  *)
(***************************************************************************)
Other(t) == IF t = "boarding" THEN "alighting" ELSE "boarding"

AddResp(status) == [status |-> status, action |-> "", current_seats |-> 0]

\* uid = uid.upper(); SELECT ... WHERE uid = ? AND list_type = t
\* Mutant: the badge is used as it was sent, not upper-cased.
add_rfid_check_own_AsSent(p, uid, t) ==
    /\ Accept(p)
    /\ h' = [h EXCEPT ![p] =
                IF uid \in ListOf(t)
                THEN [Finish(p, "add", uid, AddResp("exists"))
                         EXCEPT !.list_type = t]
                ELSE [Idle EXCEPT !.pc = "add_check_other", !.op = "add",
                                  !.uid = uid, !.list_type = t]]
    /\ UNCHANGED <<system_settings, rfid_lists, rfid_scans, gps_history,
                   gps_seq, now>>

add_rfid_check_own(p, uid, t) ==
    /\ Accept(p)
    /\ LET u == upper(uid)
       IN h' = [h EXCEPT ![p] =
                   IF u \in ListOf(t)
                   THEN [Finish(p, "add", u, AddResp("exists"))
                            EXCEPT !.list_type = t]
                   ELSE [Idle EXCEPT !.pc = "add_check_other", !.op = "add",
                                     !.uid = u, !.list_type = t]]
    /\ UNCHANGED <<system_settings, rfid_lists, rfid_scans, gps_history,
                   gps_seq, now>>

\* Mutant: the other list is not looked at.
add_rfid_check_other_Skipped(p) ==
    /\ h[p].pc = "add_check_other"
    /\ h' = [h EXCEPT ![p].pc = "add_insert"]
    /\ UNCHANGED <<system_settings, rfid_lists, rfid_scans, gps_history,
                   gps_seq, now, nreq, pre>>

\* SELECT ... WHERE uid = ? AND list_type = the other list
add_rfid_check_other(p) ==
    /\ h[p].pc = "add_check_other"
    /\ h' = [h EXCEPT ![p] =
                IF h[p].uid \in ListOf(Other(h[p].list_type))
                THEN [Finish(p, "add", h[p].uid, AddResp("error"))
                         EXCEPT !.list_type = h[p].list_type]
                ELSE [h[p] EXCEPT !.pc = "add_insert"]]
    /\ UNCHANGED <<system_settings, rfid_lists, rfid_scans, gps_history,
                   gps_seq, now, nreq, pre>>

\* INSERT INTO rfid_lists, commit; an IntegrityError leaves the handler as
\* an unhandled exception (HTTP 500) and the table as it was
add_rfid_insert(p) ==
    /\ h[p].pc = "add_insert"
    /\ IF InsertListOk(h[p].uid)
       THEN /\ rfid_lists' = InsertList(h[p].uid, h[p].list_type)
            /\ h' = [h EXCEPT ![p] =
                        [Finish(p, "add", h[p].uid, AddResp("success"))
                            EXCEPT !.list_type = h[p].list_type]]
       ELSE /\ rfid_lists' = rfid_lists
            /\ h' = [h EXCEPT ![p] =
                        [Finish(p, "add", h[p].uid, AddResp("exception"))
                            EXCEPT !.list_type = h[p].list_type]]
    /\ UNCHANGED <<system_settings, rfid_scans, gps_history, gps_seq, now,
                   nreq, pre>>

(***************************************************************************)
(* DELETE /rfid/lists/boarding/{uid} and /rfid/lists/alighting/{uid}:      *)
(* remove_boarding_rfid and remove_alighting_rfid.                         *)
(***************************************************************************)
remove_rfid(p, uid, t) ==
    /\ Accept(p)
    /\ LET u == upper(uid)
           rowcount == Cardinality(rfid_lists \ DeleteList(u, t))
       IN /\ rfid_lists' = DeleteList(u, t)
          /\ h' = [h EXCEPT ![p] =
                      [Finish(p, "remove", u,
                              AddResp(IF rowcount > 0 THEN "success"
                                      ELSE "not_found"))
                          EXCEPT !.list_type = t]]
    /\ UNCHANGED <<system_settings, rfid_scans, gps_history, gps_seq, now>>


(***************************************************************************)
(* POST /gps: receive_gps_data.  A row is its id and its created_at; the   *)
(* coordinates, the device time and the satellites are carried unchanged   *)
(* and decide nothing.  INSERT and DELETE are one write transaction.       *)
(***************************************************************************)
RowsOf(log) == { log[i] : i \in 1..Len(log) }

\* The subsets of S with k elements (the cases k <= 1 and k = |S| spelled
\* out, so that they are not searched for among all subsets).
KSubsets(S, k) ==
    IF k = 0 THEN { {} }
    ELSE IF k = 1 THEN { {x} : x \in S }
    ELSE IF k = Cardinality(S) THEN { S }
    ELSE { T \in SUBSET S : Cardinality(T) = k }

\* SELECT id FROM log ORDER BY created_at DESC LIMIT n: the sets of rows the
\* query may return.  Rows with equal created_at come in an order SQL leaves
\* open, so every choice among the rows tied at the cut is an outcome.
TopByCreatedAt(log, n) ==
    LET R == RowsOf(log)
    IN IF Cardinality(R) <= n THEN { R }
       ELSE LET cut == CHOOSE t \in { r.created_at : r \in R } :
                          /\ Cardinality({ r \in R : r.created_at > t }) < n
                          /\ Cardinality({ r \in R : r.created_at >= t }) >= n
                newer == { r \in R : r.created_at > cut }
                tied == { r \in R : r.created_at = cut }
                drop == Cardinality(tied) - (n - Cardinality(newer))
            IN { newer \cup (tied \ D) : D \in KSubsets(tied, drop) }

\* Mutant: the ingest without its DELETE.
DeleteNotIn_Nothing(log, kept) == log

\* DELETE FROM gps_history WHERE id NOT IN (SELECT id ... LIMIT 100)
DeleteNotIn(log, kept) ==
    LET Keep(r) == r \in kept
    IN SelectSeq(log, Keep)

receive_gps_data(p) ==
    /\ Accept(p)
    /\ LET inserted == Append(gps_history,
                              [id |-> gps_seq + 1, created_at |-> now])
       IN \E kept \in TopByCreatedAt(inserted, GPS_KEEP) :
             gps_history' = DeleteNotIn(inserted, kept)
    /\ gps_seq' = gps_seq + 1
    /\ h' = [h EXCEPT ![p] =
                Finish(p, "gps", NoUid,
                       [status |-> "success", action |-> "",
                        current_seats |-> 0])]
    /\ UNCHANGED <<system_settings, rfid_lists, rfid_scans, now>>

(***************************************************************************)
(* GET /latest/rfid and GET /latest/location: get_latest_rfid and          *)
(* get_latest_location.  One SELECT ... ORDER BY created_at DESC LIMIT 1;  *)
(* no row is HTTPException(404), a row is returned as it is stored.        *)
(***************************************************************************)
QueryResp(status, rows) == [status |-> status, rows |-> rows]

\* cursor.fetchone() of SELECT ... ORDER BY created_at DESC LIMIT 1
LatestResp(top) ==
    IF top = {} THEN QueryResp("404", <<>>)
    ELSE QueryResp("200", <<CHOOSE r \in top : TRUE>>)

get_latest_rfid(p) ==
    /\ Accept(p)
    /\ \E top \in TopByCreatedAt(rfid_scans, 1) :
          h' = [h EXCEPT ![p] = Finish(p, "latest_rfid", NoUid, LatestResp(top))]
    /\ UNCHANGED <<system_settings, rfid_lists, rfid_scans, gps_history,
                   gps_seq, now>>

get_latest_location(p) ==
    /\ Accept(p)
    /\ \E top \in TopByCreatedAt(gps_history, 1) :
          h' = [h EXCEPT ![p] =
                   Finish(p, "latest_location", NoUid, LatestResp(top))]
    /\ UNCHANGED <<system_settings, rfid_lists, rfid_scans, gps_history,
                   gps_seq, now>>

(***************************************************************************)
(* GET /rfid/card/{uid}: get_card_history.  The key is upper-cased, the    *)
(* stored uid is compared as it is stored, and the rows come back ordered  *)
(* by created_at alone: rows of one second in any order.                   *)
(***************************************************************************)
RECURSIVE OrderByCreatedAtDesc(_)
OrderByCreatedAtDesc(R) ==
    IF R = {} THEN { <<>> }
    ELSE UNION { { <<r>> \o s : s \in OrderByCreatedAtDesc(R \ {r}) } :
                 r \in { x \in R : \A y \in R : y.created_at <= x.created_at } }

get_card_history(p, uid) ==
    /\ Accept(p)
    /\ \E scans \in OrderByCreatedAtDesc(
                       { r \in RowsOf(rfid_scans) : r.uid = upper(uid) }) :
          h' = [h EXCEPT ![p] =
                   Finish(p, "card", upper(uid), QueryResp("200", scans))]
    /\ UNCHANGED <<system_settings, rfid_lists, rfid_scans, gps_history,
                   gps_seq, now>>

(***************************************************************************)
(* GET /rfid/history and GET /gps/history: get_rfid_history and            *)
(* get_gps_history.  A SELECT of the row count, then SELECT ... ORDER BY   *)
(* created_at DESC LIMIT ?, on one connection; limit is any int, and       *)
(* SQLite takes a negative LIMIT as no limit.                              *)
(***************************************************************************)
Limits == {-1, 0, 1, MaxStored, DEFAULT_LIMIT}

HistoryResp(total, rows) == [status |-> "200", total |-> total, rows |-> rows]

\* the first limit rows of the ordered rows
LimitRows(rows, limit) ==
    IF limit < 0 \/ limit >= Len(rows) THEN rows ELSE SubSeq(rows, 1, limit)

get_rfid_history(p, limit) ==
    /\ Accept(p)
    /\ \E rows \in OrderByCreatedAtDesc(RowsOf(rfid_scans)) :
          h' = [h EXCEPT ![p] =
                   [Finish(p, "rfid_history", NoUid,
                           HistoryResp(Len(rfid_scans), LimitRows(rows, limit)))
                       EXCEPT !.limit = limit]]
    /\ UNCHANGED <<system_settings, rfid_lists, rfid_scans, gps_history,
                   gps_seq, now>>

get_gps_history(p, limit) ==
    /\ Accept(p)
    /\ \E rows \in OrderByCreatedAtDesc(RowsOf(gps_history)) :
          h' = [h EXCEPT ![p] =
                   [Finish(p, "gps_history", NoUid,
                           HistoryResp(Len(gps_history), LimitRows(rows, limit)))
                       EXCEPT !.limit = limit]]
    /\ UNCHANGED <<system_settings, rfid_lists, rfid_scans, gps_history,
                   gps_seq, now>>

(***************************************************************************)
(* init_database, run again on the existing database file when the server  *)
(* process is started again (main.py runs it at import).                   *)
(***************************************************************************)
\* INSERT OR IGNORE INTO rfid_lists (uid, list_type) for each uid of the
\* list: a uid that is in the table, in either list, is skipped.
InsertOrIgnoreList(lists, uids, t) ==
    lists \cup { [uid |-> u, list_type |-> t] :
                 u \in { x \in uids : \A r \in lists : r.uid # x } }

init_database(p) ==
    /\ Accept(p)
    /\ system_settings' =
          IF "current_seat_count" \in DOMAIN system_settings
          THEN system_settings ELSE init_system_settings
    /\ rfid_lists' =
          InsertOrIgnoreList(
              InsertOrIgnoreList(rfid_lists, default_boarding, "boarding"),
              default_alighting, "alighting")
    /\ h' = [h EXCEPT ![p] = Finish(p, "init", NoUid, NoResp)]
    /\ UNCHANGED <<rfid_scans, gps_history, gps_seq, now>>

(***************************************************************************)
(* Specifications.                                                         *)
(***************************************************************************)
ListTypes == {"boarding", "alighting"}

\* The first database call of each handler ...
Request(p) ==
    \/ \E uid \in UIDS : rfid_read_count(p, uid)
    \/ reset_seat_count(p)
    \/ \E uid \in UIDS, t \in ListTypes : add_rfid_check_own(p, uid, t)
    \/ \E uid \in UIDS, t \in ListTypes : remove_rfid(p, uid, t)
    \/ receive_gps_data(p)

\* ... and the calls that follow it.
Continue(p) ==
    \/ rfid_read_boarding(p)
    \/ rfid_read_alighting(p)
    \/ rfid_update(p)
    \/ rfid_insert(p)
    \/ add_rfid_check_other(p)
    \/ add_rfid_insert(p)

Step(p) == (nreq < MaxReqs /\ Request(p)) \/ Continue(p)

\* No handler modelled here reads created_at, so Spec keeps the clock still:
\* its behaviours are those that fit in one second.
Next == \E p \in Procs : Step(p)

Spec == Init /\ [][Next]_vars

\* One server process: a handler runs to completion before the next starts.
NextSeq == Tick \/ Step(1)

SpecSeq == InitSeq /\ [][NextSeq]_vars

\* N = TOTAL_SEATS + 1 boarding scans of one badge against the new database,
\* served by the processes as fast as they take them.
RushSize == TOTAL_SEATS + 1

RushStep(p) ==
    \/ nreq < RushSize /\ rfid_read_count(p, FirstBadge)
    \/ rfid_read_boarding(p)
    \/ rfid_read_alighting(p)
    \/ rfid_update(p)
    \/ rfid_insert(p)

NextRush == \E p \in Procs : RushStep(p)

SpecRush == InitFrom(0) /\ [][NextRush]_vars

\* A scan while the registry is edited: one request more than Spec takes, so
\* that a badge can be removed from one list and added to the other while
\* get_rfid_lists is between its two SELECTs.
SnapSize == MaxReqs + 1

SnapRequest(p) ==
    \/ \E uid \in UIDS : rfid_read_count(p, uid)
    \/ \E uid \in UIDS, t \in ListTypes : add_rfid_check_own(p, uid, t)
    \/ \E uid \in UIDS, t \in ListTypes : remove_rfid(p, uid, t)

SnapStep(p) == (nreq < SnapSize /\ SnapRequest(p)) \/ Continue(p)

NextSnap == \E p \in Procs : SnapStep(p)

SpecSnap == InitFrom(0) /\ [][NextSnap]_vars

\* One server process that is started again between requests.
RestartStep(p) ==
    \/ nreq < MaxReqs /\ (Request(p) \/ init_database(p))
    \/ Continue(p)

NextRestart == RestartStep(1)

SpecRestart == Init /\ [][NextRestart]_vars

\* The GPS log close to its cap: n fixes are stored, ingested one per second,
\* two per second, or all within the second the behaviour starts in.
StartFixes == {GPS_KEEP - 1, GPS_KEEP}

FixesAfter(n, perSecond) ==
    [i \in 1..n |-> [id |-> i, created_at |-> -((n - i) \div perSecond)]]

InitGps ==
    \E n \in StartFixes, perSecond \in {1, 2, GPS_KEEP + 1} :
        /\ system_settings = init_system_settings
        /\ rfid_lists = init_rfid_lists
        /\ rfid_scans = <<>>
        /\ gps_history = FixesAfter(n, perSecond)
        /\ gps_seq = n
        /\ now = 0
        /\ h = [p \in Procs |-> Idle]
        /\ nreq = 0
        /\ pre = [proc |-> 1, prev |-> "",
                  system_settings |-> init_system_settings,
                  rfid_lists |-> init_rfid_lists, nscans |-> 0,
                  gps_history |-> FixesAfter(n, perSecond)]

GpsStep(p) == nreq < MaxFixes /\ receive_gps_data(p)

NextGps == Tick \/ \E p \in Procs : GpsStep(p)

SpecGps == InitGps /\ [][NextGps]_vars

\* The logs and their queries, one server process: the store holds up to
\* MaxStored scans (all of the first second) and up to MaxStored fixes (one or
\* two per second) when the behaviour starts.
InitLog ==
    \E k \in 0..MaxStored, n \in 0..MaxStored, perSecond \in {1, 2} :
        /\ system_settings = SettingsWith(k)
        /\ rfid_lists = init_rfid_lists
        /\ rfid_scans = ScansAfter(k)
        /\ gps_history = FixesAfter(n, perSecond)
        /\ gps_seq = n
        /\ now = 0
        /\ h = [p \in Procs |-> Idle]
        /\ nreq = 0
        /\ pre = [proc |-> 1, prev |-> "",
                  system_settings |-> SettingsWith(k),
                  rfid_lists |-> init_rfid_lists, nscans |-> k,
                  gps_history |-> FixesAfter(n, perSecond)]

LogRequest(p) ==
    \/ \E uid \in UIDS : rfid_read_count(p, uid)
    \/ receive_gps_data(p)
    \/ get_latest_rfid(p)
    \/ get_latest_location(p)
    \/ \E uid \in UIDS : get_card_history(p, uid)
    \/ \E limit \in Limits : get_rfid_history(p, limit)
    \/ \E limit \in Limits : get_gps_history(p, limit)

LogContinue(p) ==
    \/ rfid_read_boarding(p)
    \/ rfid_read_alighting(p)
    \/ rfid_update(p)
    \/ rfid_insert(p)

NextLog == Tick \/ (nreq < MaxReqs /\ LogRequest(1)) \/ LogContinue(1)

SpecLog == InitLog /\ [][NextLog]_vars

(***************************************************************************)
(* Properties.                                                             *)
(***************************************************************************)
filled == get_current_seat_count

boardingSet == ListOf("boarding")

alightingSet == ListOf("alighting")

\* The latest request accepted has been answered: op is what it asked for.
Answered(op) == h[pre.proc].pc = "done" /\ h[pre.proc].op = op

Resp == h[pre.proc].resp

PreFilled == int(pre.system_settings["current_seat_count"])

PreList(t) == { r.uid : r \in { x \in pre.rfid_lists : x.list_type = t } }

\* The store now, and as the latest request found it.
Store ==
    [system_settings |-> system_settings, rfid_lists |-> rfid_lists,
     nscans |-> Len(rfid_scans), gps_history |-> gps_history]

PreStore ==
    [system_settings |-> pre.system_settings, rfid_lists |-> pre.rfid_lists,
     nscans |-> pre.nscans, gps_history |-> pre.gps_history]

CountAction(a) ==
    Cardinality({ i \in 1..Len(rfid_scans) : rfid_scans[i].action = a })

\* C1: in every reachable state, whatever the interleaving of the database
\* calls of scans, resets, GPS ingests and registry calls, the persisted
\* occupancy value is between 0 and TOTAL_SEATS.
C1_OccupancyWithinCapacity == filled \in 0..TOTAL_SEATS

\* C1 witness: two interleaved scans both read 29, both are admitted, and
\* the persisted value is 30.
C1_Witness ==
    /\ \A p \in {1, 2} : /\ h[p].pc = "done"
                         /\ h[p].op = "rfid"
                         /\ h[p].resp.action = "boarding"
                         /\ h[p].resp.current_seats = TOTAL_SEATS
    /\ filled = TOTAL_SEATS

\* C2 (as claimed): once N = TOTAL_SEATS + 1 concurrent boarding scans against
\* the empty counter are all answered, exactly TOTAL_SEATS of them were
\* answered 'boarding', N - TOTAL_SEATS 'boarding_denied', and the
\* persisted value is TOTAL_SEATS.
C2_RushFillsExactlyCapacity ==
    (nreq = RushSize /\ \A p \in Procs : Free(p)) =>
        /\ CountAction("boarding") = TOTAL_SEATS
        /\ CountAction("boarding_denied") = RushSize - TOTAL_SEATS
        /\ filled = TOTAL_SEATS

\* C3: in every reachable state, whatever the interleaving of the add and
\* remove calls, no badge is in both the boarding and the alighting set.
C3_RegistryDisjoint == boardingSet \cap alightingSet = {}

\* C3 witness: two adds of one badge to different lists raced past their
\* checks and the second INSERT was refused by the UNIQUE constraint.
C3_Witness ==
    \E p \in Procs : /\ h[p].pc = "done"
                     /\ h[p].op = "add"
                     /\ h[p].resp.status = "exception"

\* C4: an add of a badge that is in the other list is answered 'error' and
\* leaves the whole store as the request found it.
C4_ConflictRejected ==
    (/\ Answered("add")
     /\ h[pre.proc].uid \in PreList(Other(h[pre.proc].list_type))) =>
        /\ Resp.status = "error"
        /\ Store = PreStore

\* C4 witness: an add to the alighting list of a badge of the boarding list
\* has been answered.
C4_Witness ==
    /\ Answered("add")
    /\ h[pre.proc].list_type = "alighting"
    /\ h[pre.proc].uid \in PreList("boarding")
    /\ Resp.status = "error"

\* C5: a scan of a boarding-list badge that finds filled = TOTAL_SEATS is
\* answered 'boarding_denied' and leaves filled = TOTAL_SEATS.
C5_FullBusDenies ==
    (/\ Answered("rfid")
     /\ PreFilled = TOTAL_SEATS
     /\ h[pre.proc].uid \in PreList("boarding")) =>
        /\ Resp.action = "boarding_denied"
        /\ filled = TOTAL_SEATS

\* C5 witness: such a scan has been answered.
C5_Witness ==
    /\ Answered("rfid")
    /\ PreFilled = TOTAL_SEATS
    /\ h[pre.proc].uid \in PreList("boarding")
    /\ Resp.action = "boarding_denied"

\* C6: a scan of an alighting-list badge that finds filled = 0 is answered
\* 'alighting_error' and leaves filled = 0.
C6_EmptyBusRejectsAlighting ==
    (/\ Answered("rfid")
     /\ PreFilled = 0
     /\ h[pre.proc].uid \in PreList("alighting")) =>
        /\ Resp.action = "alighting_error"
        /\ filled = 0

\* C6 witness: such a scan has been answered.
C6_Witness ==
    /\ Answered("rfid")
    /\ PreFilled = 0
    /\ h[pre.proc].uid \in PreList("alighting")
    /\ Resp.action = "alighting_error"

\* C7: from every filled value, a scan of a boarding-list badge below
\* capacity persists filled + 1 and is answered 'boarding', a scan of an
\* alighting-list badge above 0 persists filled - 1 and is answered
\* 'alighting'; the count in the answer is the persisted value.
C7_AdmittedScanMovesByOne ==
    /\ (/\ Answered("rfid")
        /\ PreFilled < TOTAL_SEATS
        /\ h[pre.proc].uid \in PreList("boarding")) =>
           /\ Resp.action = "boarding"
           /\ filled = PreFilled + 1
           /\ Resp.current_seats = filled
    /\ (/\ Answered("rfid")
        /\ PreFilled > 0
        /\ h[pre.proc].uid \in PreList("alighting")) =>
           /\ Resp.action = "alighting"
           /\ filled = PreFilled - 1
           /\ Resp.current_seats = filled

\* C7 witness: an alighting from a half full bus has been answered.
C7_Witness ==
    /\ Answered("rfid")
    /\ PreFilled = 15
    /\ Resp.action = "alighting"
    /\ filled = 14

\* C8: a scan of a badge that is in neither list is answered 'unknown',
\* leaves filled as it found it and appends one 'unknown' event for the
\* badge to the scan history.
C8_UnknownScanRecorded ==
    (/\ Answered("rfid")
     /\ upper(h[pre.proc].uid) \notin PreList("boarding") \cup PreList("alighting")) =>
        /\ Resp.action = "unknown"
        /\ system_settings = pre.system_settings
        /\ Len(rfid_scans) = pre.nscans + 1
        /\ rfid_scans[Len(rfid_scans)].uid = h[pre.proc].uid
        /\ rfid_scans[Len(rfid_scans)].action = "unknown"

\* C8 witness: the unregistered badge has been scanned on a bus that is
\* neither empty nor full.
C8_Witness ==
    /\ Answered("rfid")
    /\ h[pre.proc].uid = <<"Z","Z","Z","9","9","9">>
    /\ Resp.action = "unknown"
    /\ filled = 7

IdsOf(log) == { r.id : r \in RowsOf(log) }

\* C9 (as claimed): a fix ingested into a log of GPS_KEEP fixes evicts the
\* oldest fix by insertion order and no other, also among fixes with equal
\* created_at: the log then holds the GPS_KEEP latest fixes, the new one
\* included.
C9_EvictsOldestInserted ==
    (/\ Answered("gps")
     /\ Len(pre.gps_history) = GPS_KEEP) =>
        /\ Len(gps_history) = GPS_KEEP
        /\ SubSeq(gps_history, 1, GPS_KEEP - 1) = Tail(pre.gps_history)
        /\ gps_history[GPS_KEEP].id = gps_seq

\* C10: a reset leaves filled = 0 whatever it was, also after a reset.
C10_ResetZeroes == Answered("reset") => (filled = 0 /\ Resp.current_seats = 0)

\* C10 witness: a reset that follows a reset of a full bus has been answered.
C10_Witness ==
    /\ Answered("reset")
    /\ pre.prev = "reset"
    /\ Len(rfid_scans) = TOTAL_SEATS
    /\ filled = 0

\* The step in which process p accepts a request for op and answers it.
Serves(p, op) ==
    /\ nreq' = nreq + 1
    /\ pre'.proc = p
    /\ h'[p].pc = "done"
    /\ h'[p].op = op

\* C11: a reset step changes the occupancy value only: the boarding set,
\* the alighting set, the GPS log and the scan log are the same before and
\* after it, whatever the other processes are in the middle of.
C11_ResetTouchesCounterOnly ==
    [][(\E p \in Procs : Serves(p, "reset")) =>
           /\ rfid_lists' = rfid_lists
           /\ rfid_scans' = rfid_scans
           /\ gps_history' = gps_history
           /\ gps_seq' = gps_seq]_vars

\* C11 witness: a reset of a bus with passengers, scans and a fix on record
\* has been answered.
C11_Witness ==
    /\ Answered("reset")
    /\ PreFilled > 0
    /\ filled = 0
    /\ Len(rfid_scans) > 0
    /\ Len(gps_history) > 0

\* C12 (as claimed): the latest-entry query of either log answers with the
\* entry appended last, also among entries with equal created_at, and with
\* not found (404) exactly when the log is empty.
C12_LatestIsLastAppended ==
    /\ Answered("latest_rfid") =>
          Resp = IF rfid_scans = <<>> THEN QueryResp("404", <<>>)
                 ELSE QueryResp("200", <<rfid_scans[Len(rfid_scans)]>>)
    /\ Answered("latest_location") =>
          Resp = IF gps_history = <<>> THEN QueryResp("404", <<>>)
                 ELSE QueryResp("200", <<gps_history[Len(gps_history)]>>)

\* C13 (as claimed): a scan that presents, in any letter case, a badge whose
\* upper-case form is in the boarding (alighting) set is handled as a
\* boarding (alighting) request, never as 'unknown', and the event recorded
\* for it stores the upper-case form.
C13_ScanIgnoresLetterCase ==
    Answered("rfid") =>
        /\ upper(h[pre.proc].uid) \in PreList("boarding") =>
              Resp.action \in {"boarding", "boarding_denied"}
        /\ upper(h[pre.proc].uid) \in PreList("alighting") =>
              Resp.action \in {"alighting", "alighting_error"}
        /\ upper(h[pre.proc].uid) \in PreList("boarding") \cup PreList("alighting") =>
              rfid_scans[Len(rfid_scans)].uid = upper(h[pre.proc].uid)

\* The scans of badge k (letter case ignored), the last appended first.
RECURSIVE NewestFirst(_, _)
NewestFirst(log, k) ==
    IF log = <<>> THEN <<>>
    ELSE LET r == log[Len(log)]
             rest == NewestFirst(SubSeq(log, 1, Len(log) - 1), k)
         IN  IF upper(r.uid) = k THEN <<r>> \o rest ELSE rest

\* C14 (as claimed): the per-badge history of key k is every recorded scan
\* whose badge equals k once upper-cased, in whatever letter case it was
\* submitted, no scan of another badge, the most recently appended first.
C14_CardHistoryComplete ==
    Answered("card") => Resp.rows = NewestFirst(rfid_scans, h[pre.proc].uid)

\* The step of a scan handler at process p that writes the seat count
\* (update_seat_count, between the classification and the insert).
WritesCount(p) == h[p].pc = "rfid_update" /\ h'[p].pc = "rfid_insert"

\* C15 (as claimed): a scan whose outcome is 'unknown', 'boarding_denied' or
\* 'alighting_error' never changes the stored seat count, whatever other
\* handlers committed between its read of the count and its write.
C15_RejectedScanKeepsCount ==
    [][\A p \in Procs :
          (WritesCount(p) /\
           h[p].action \in {"unknown", "boarding_denied", "alighting_error"})
          => system_settings' = system_settings]_vars

\* C16 (as claimed): the pair (boarding_list, alighting_list) a scan handler
\* got from get_rfid_lists is the registry at one instant, whatever add and
\* remove calls ran meanwhile; the registry never holds a badge in both lists
\* (C3), so neither does the pair.
C16_SnapshotConsistent ==
    \A p \in Procs :
        h[p].pc = "rfid_update" =>
            h[p].boarding_list \cap h[p].alighting_list = {}

\* C17 (as claimed): whenever no scan handler is in flight, and no reset has
\* been served since the database was created, the stored count is the number
\* of 'boarding' events less the number of 'alighting' events in the scan
\* log, whatever the interleaving of the scan handlers.
C17_CountMatchesLog ==
    (\A p \in Procs : Free(p)) =>
        filled = CountAction("boarding") - CountAction("alighting")

\* C18 (as claimed): running init_database again on the existing database
\* leaves the seat count as it was, and a badge that was in neither list
\* (one of the default badges that was removed, for one) is in neither list
\* afterwards.
C18_RestartKeepsStore ==
    Answered("init") =>
        /\ system_settings = pre.system_settings
        /\ boardingSet \cup alightingSet
              \subseteq PreList("boarding") \cup PreList("alighting")

\* C19: in every reachable state, after any sequence of GPS ingests by any
\* of the server processes, the GPS log holds at most GPS_KEEP fixes.
C19_GpsLogCapped == Len(gps_history) <= GPS_KEEP

\* A fix was ingested into a log that already held GPS_KEEP fixes.
C19_Witness ==
    /\ Answered("gps")
    /\ Len(pre.gps_history) = GPS_KEEP
    /\ Len(gps_history) = GPS_KEEP

\* The step in which the scan handler at process p answers its caller.
AnswersScan(p) == h[p].pc = "rfid_insert" /\ h'[p].pc = "done"

\* C20: the step in which a scan handler answers appends exactly one event
\* to the scan log, for the scanned badge and with the outcome the answer
\* carries, and keeps the events before it; every other step of every handler
\* (scan, reset, GPS ingest, registry add and remove) leaves the scan log
\* as it is.
C20_ScanLogAppendOnly ==
    [][IF \E p \in Procs : AnswersScan(p)
       THEN \E p \in Procs :
               /\ AnswersScan(p)
               /\ Len(rfid_scans') = Len(rfid_scans) + 1
               /\ SubSeq(rfid_scans', 1, Len(rfid_scans)) = rfid_scans
               /\ rfid_scans'[Len(rfid_scans')].uid = h'[p].uid
               /\ rfid_scans'[Len(rfid_scans')].action = h'[p].resp.action
       ELSE rfid_scans' = rfid_scans]_vars

\* Every process has answered a scan, one of them an unknown badge, and the
\* log holds the events of before and an event for each.
C20_Witness ==
    /\ \A p \in Procs : h[p].pc = "done" /\ h[p].op = "rfid"
    /\ \E p \in Procs : h[p].resp.action = "unknown"
    /\ Len(rfid_scans) >= NumProcs
    /\ rfid_scans[1].action = "boarding"

\* C21: an add handler works on the upper-case form of the badge; when that
\* badge was in neither list the answer is 'success' and the registry is the
\* one of before plus the badge in the requested list; when it was in the
\* requested list the answer is 'exists' and the registry is as before.
C21_AddSemantics ==
    Answered("add") =>
        LET u == h[pre.proc].uid
            t == h[pre.proc].list_type
        IN  /\ u = upper(u)
            /\ u \notin PreList("boarding") \cup PreList("alighting") =>
                  /\ Resp.status = "success"
                  /\ rfid_lists = pre.rfid_lists
                                    \cup { [uid |-> u, list_type |-> t] }
                  /\ u \in ListOf(t) /\ u \notin ListOf(Other(t))
            /\ u \in PreList(t) =>
                  /\ Resp.status = "exists"
                  /\ rfid_lists = pre.rfid_lists

\* A badge that was in neither list has been added to the alighting list.
C21_Witness ==
    /\ Answered("add")
    /\ h[pre.proc].list_type = "alighting"
    /\ h[pre.proc].uid \notin PreList("boarding") \cup PreList("alighting")
    /\ Resp.status = "success"
    /\ h[pre.proc].uid \in alightingSet

\* The log, the last appended entry first.
Reverse(log) == [i \in 1..Len(log) |-> log[Len(log) + 1 - i]]

\* The number of entries recent(limit) returns from a log of that size:
\* min(limit, size), and none for a limit below zero.
RecentSize(limit, size) ==
    IF limit < 0 THEN 0 ELSE IF limit < size THEN limit ELSE size

\* C22 (as claimed): for both logs and every integer limit, the history
\* query returns exactly min(limit, size) entries: the most recently
\* appended ones, the last appended first.
C22_RecentIsNewestFirst ==
    /\ Answered("rfid_history") =>
          /\ Len(Resp.rows) = RecentSize(h[pre.proc].limit, Len(rfid_scans))
          /\ Resp.rows = SubSeq(Reverse(rfid_scans), 1, Len(Resp.rows))
    /\ Answered("gps_history") =>
          /\ Len(Resp.rows) = RecentSize(h[pre.proc].limit, Len(gps_history))
          /\ Resp.rows = SubSeq(Reverse(gps_history), 1, Len(Resp.rows))

====
